---- MODULE Spec2Model ----
\* Verification model of services/pricing.py (run_pricing_engine).
\*
\* Real numbers are exact rationals <<n, d>> in lowest terms with d > 0, so
\* every clip, comparison and rounding of the source is computed by what it
\* does.  Python's round() is round-half-to-even; np.clip(x, lo, hi) on a
\* scalar is min(max(x, lo), hi).  The inputs are finite numbers (no NaN, no
\* infinity).  The source computes in binary floating point: where an exact
\* value is a decimal tie of an output rounding (0.015 to two places), the
\* float nearest to it may round the other way; the model rounds the exact
\* value.
EXTENDS Integers, Sequences, FiniteSets, TLC

VARIABLES args, frame, result, pc

\* calls:     the calls of run_pricing_engine completed so far, with results
\* np_random: the state of numpy's process-wide random generator
\* session:   st.session_state of the dashboard session (None is <<>>, a
\*            value x is <<x>>)
\* cache:     the entries of st.cache_data for cached_profile_lookup
\* lookups:   the outcomes of the "Lookup from web" clicks so far
VARIABLES calls, np_random, session, cache, lookups

callvars == <<args, frame, result, pc>>
appvars == <<calls, np_random, session, cache, lookups>>
vars == <<args, frame, result, pc, calls, np_random, session, cache, lookups>>

-----------------------------------------------------------------------------
\* Exact rational arithmetic

Abs(i) == IF i < 0 THEN -i ELSE i

RECURSIVE GCD(_, _)
GCD(a, b) == IF b = 0 THEN a ELSE GCD(b, a % b)

\* the rational n/d (d # 0) in lowest terms with a positive denominator
Rat(n, d) ==
    LET g == GCD(Abs(n), Abs(d))
        s == IF d < 0 THEN -1 ELSE 1
    IN  <<s * (n \div g), s * (d \div g)>>

R(i) == <<i, 1>>

RAdd(x, y) == Rat(x[1] * y[2] + y[1] * x[2], x[2] * y[2])
RNeg(x) == <<-x[1], x[2]>>
RSub(x, y) == RAdd(x, RNeg(y))

\* cross-reduced product: intermediate values stay as small as the result
RMul(x, y) ==
    LET g1 == GCD(Abs(x[1]), y[2])
        g2 == GCD(Abs(y[1]), x[2])
    IN  <<(x[1] \div g1) * (y[1] \div g2), (x[2] \div g2) * (y[2] \div g1)>>

RInv(x) == IF x[1] < 0 THEN <<-x[2], -x[1]>> ELSE <<x[2], x[1]>>
RDiv(x, y) == RMul(x, RInv(y))

RLt(x, y) == x[1] * y[2] < y[1] * x[2]
RLe(x, y) == x[1] * y[2] <= y[1] * x[2]
RAbs(x) == <<Abs(x[1]), x[2]>>

\* Python max(a, b) / min(a, b): the first argument wins ties
RMax(x, y) == IF RLt(x, y) THEN y ELSE x
RMin(x, y) == IF RLt(y, x) THEN y ELSE x

IsInt(x) == x[2] = 1

-----------------------------------------------------------------------------
\* Python / numpy primitives used by the engine

\* int(x): truncation toward zero
int(x) == IF x[1] >= 0 THEN x[1] \div x[2] ELSE -((-x[1]) \div x[2])

\* round(x): nearest integer, ties to the even one
round(x) ==
    LET q == x[1] \div x[2]
        r == x[1] % x[2]
    IN  IF 2 * r < x[2] THEN q
        ELSE IF 2 * r > x[2] THEN q + 1
        ELSE IF q % 2 = 0 THEN q ELSE q + 1

Pow10(k) == IF k = 0 THEN 1 ELSE IF k = 1 THEN 10 ELSE 100

\* round(x, ndigits)
round_n(x, ndigits) == Rat(round(RMul(x, R(Pow10(ndigits)))), Pow10(ndigits))

\* np.clip(x, lo, hi)
clip(x, lo, hi) == RMin(RMax(x, lo), hi)

-----------------------------------------------------------------------------
\* run_pricing_engine, line by line.  Each operator takes the values of the
\* local variables it reads.

None == "<None>"

IMax(i, j) == IF i < j THEN j ELSE i

\* truthiness of an optional number (None is <<>>, a number x is <<x>>)
truthy_number(o) == o # <<>> /\ o[1][1] # 0

\* truthiness of an optional string
truthy_string(s) == s # None /\ s # ""

\* str.lower() on the strings the callers pass
lower(s) ==
    CASE s = "Conservative" -> "conservative"
      [] s = "Balanced"     -> "balanced"
      [] s = "AGGRESSIVE"   -> "aggressive"
      [] s = "YOLO"         -> "yolo"
      [] OTHER              -> s

\* followers = max(int(followers), 1)
clamp_followers(f) == IMax(int(f), 1)

\* subs = max(int(estimated_subscribers or followers), 1)
clamp_subs(es, f) == IMax(int(IF truthy_number(es) THEN es[1] ELSE R(f)), 1)

\* views = max(float(avg_views), 1.0)
clamp_views(v) == RMax(v, R(1))

\* eng = max(float(engagement_rate), 0.1)
clamp_eng(e) == RMax(e, <<1, 10>>)

\* cpm = max(float(avg_cpm), 0.5)
clamp_cpm(c) == RMax(c, <<1, 2>>)


\* mutation: the floor of current_price left out
clamp_current_price_none(p) == p

\* current_price = max(float(current_price), 1.0)
clamp_current_price(p) == RMax(p, R(1))


\* mutation: the engine jitters the impressions from numpy's global generator
monthly_impressions_noisy(v) == RMul(v, R(30 + np_random))

\* mutation: 300 posts a month for 30
monthly_impressions_300(v) == RMul(v, R(300))

\* monthly_impressions = views * 30
monthly_impressions(v) == RMul(v, R(30))

\* implied_revenue_per_fan = (monthly_impressions / 1000.0 * cpm) / followers
implied_revenue_per_fan(mi, c, f) == RDiv(RMul(RDiv(mi, R(1000)), c), R(f))


\* mutation: the upper bound of the clip taken as 3.5 for 0.35
target_sub_penetration_wide(e) ==
    LET t == clip(RDiv(e, R(10)), <<3, 20>>, <<7, 2>>)
    IN  IF RLe(t, R(0)) THEN <<1, 5>> ELSE t

\* target_sub_penetration = np.clip(eng / 10.0, 0.15, 0.35); <= 0 -> 0.2
target_sub_penetration(e) ==
    LET t == clip(RDiv(e, R(10)), <<3, 20>>, <<7, 20>>)
    IN  IF RLe(t, R(0)) THEN <<1, 5>> ELSE t


\* mutation: the clip of the target ARPU left out
target_arpu_unclipped(irpf) == RMul(irpf, R(4))

\* mutation: the floor of the target ARPU at 1.0 instead of 3.0
target_arpu_low_floor(irpf) == clip(RMul(irpf, R(4)), R(1), R(30))

\* target_arpu = np.clip(implied_revenue_per_fan * 4, 3.0, 30.0)
target_arpu(irpf) == clip(RMul(irpf, R(4)), R(3), R(30))


\* mutation: the [5, 50] clip left out
suggested_sub_price_unclipped(arpu, pen) ==
    Rat(round(RMul(RDiv(arpu, pen), R(2))), 2)

\* suggested_sub_price = round(clip(target_arpu / penetration, 5, 50) * 2) / 2.0
suggested_sub_price(arpu, pen) ==
    Rat(round(RMul(clip(RDiv(arpu, pen), R(5), R(50)), R(2))), 2)

\* ppv_low = round(max(4.0, suggested_sub_price * 0.6), 2)
ppv_low(s) == round_n(RMax(R(4), RMul(s, <<3, 5>>)), 2)

\* ppv_high = round(max(ppv_low + 2.0, suggested_sub_price * 2.0), 2)
ppv_high(pl, s) == round_n(RMax(RAdd(pl, R(2)), RMul(s, R(2))), 2)

\* uplift_ratio = suggested_sub_price / current_price if current_price else 1.0
uplift_ratio(s, cp) == IF cp[1] # 0 THEN RDiv(s, cp) ELSE R(1)

\* uplift_pct = round((uplift_ratio - 1.0) * 100.0, 2)
uplift_pct(ur) == round_n(RMul(RSub(ur, R(1)), R(100)), 2)

RiskProfiles == {"conservative", "balanced", "aggressive"}


\* mutation: an unrecognised profile falls back to "conservative"
normalize_risk_profile_conservative(rp) ==
    LET l == lower(IF truthy_string(rp) THEN rp ELSE "balanced")
    IN  IF l \notin RiskProfiles THEN "conservative" ELSE l

\* risk_profile = (risk_profile or "balanced").lower(); unknown -> "balanced"
normalize_risk_profile(rp) ==
    LET l == lower(IF truthy_string(rp) THEN rp ELSE "balanced")
    IN  IF l \notin RiskProfiles THEN "balanced" ELSE l

\* delta_pct = (suggested_sub_price - current_price) / current_price * 100.0
delta_pct(s, cp) == RMul(RDiv(RSub(s, cp), cp), R(100))

\* round(current_price * k * 2) / 2.0
round_half_dollar(cp, k) == Rat(round(RMul(RMul(cp, k), R(2))), 2)


\* mutation: the discount step taken from the risk profile (10% when
\* conservative)
branch_test_price_profile_discount(d, s, cp, rp) ==
    IF RLt(d, R(-10)) THEN
        round_half_dollar(cp, IF rp = "conservative" THEN <<9, 10>> ELSE <<4, 5>>)
    ELSE IF RLe(R(-10), d) /\ RLe(d, R(10)) THEN s
    ELSE IF rp = "conservative" THEN round_half_dollar(cp, <<23, 20>>)
    ELSE IF rp = "aggressive" THEN s
    ELSE round_half_dollar(cp, <<5, 4>>)

\* mutation: the factors of the discount and the balanced increase swapped
branch_test_price_swapped(d, s, cp, rp) ==
    IF RLt(d, R(-10)) THEN round_half_dollar(cp, <<5, 4>>)
    ELSE IF RLe(R(-10), d) /\ RLe(d, R(10)) THEN s
    ELSE IF rp = "conservative" THEN round_half_dollar(cp, <<23, 20>>)
    ELSE IF rp = "aggressive" THEN s
    ELSE round_half_dollar(cp, <<4, 5>>)

\* the three-way branch on delta_pct, before the clamp
branch_test_price(d, s, cp, rp) ==
    IF RLt(d, R(-10)) THEN round_half_dollar(cp, <<4, 5>>)
    ELSE IF RLe(R(-10), d) /\ RLe(d, R(10)) THEN s
    ELSE IF rp = "conservative" THEN round_half_dollar(cp, <<23, 20>>)
    ELSE IF rp = "aggressive" THEN s
    ELSE round_half_dollar(cp, <<5, 4>>)


\* mutation: the clamp to the platform's price range left out
clamp_test_price_none(tp) == tp

\* test_price = float(np.clip(test_price, 3.0, 100.0))
clamp_test_price(tp) == clip(tp, R(3), R(100))


\* mutation: the durations of the conservative and aggressive profiles swapped
duration_days_swapped(rp) ==
    IF rp = "conservative" THEN 10 ELSE IF rp = "aggressive" THEN 21 ELSE 14

duration_days(rp) ==
    IF rp = "conservative" THEN 21 ELSE IF rp = "aggressive" THEN 10 ELSE 14

traffic_fraction(rp) ==
    IF rp = "conservative" THEN <<3, 10>>
    ELSE IF rp = "aggressive" THEN <<4, 5>> ELSE <<1, 2>>

\* price_change_pct = (test_price - current_price) / current_price * 100.0
price_change_pct(tp, cp) == RMul(RDiv(RSub(tp, cp), cp), R(100))


\* mutation: the medium band excludes its upper end (< 20 for <= 20)
expected_effect_open_20(pc_pct) ==
    IF RLt(pc_pct, R(0)) THEN
        LET conv == RMin(RMul(RAbs(pc_pct), <<4, 5>>), R(40))
        IN  [conv |-> conv, mrr |-> RMax(RMul(conv, <<3, 5>>), R(3)), risk |-> "low"]
    ELSE IF RLe(R(0), pc_pct) /\ RLt(pc_pct, R(20)) THEN
        [conv |-> RMul(RNeg(pc_pct), <<1, 2>>),
         mrr  |-> RMax(RMul(pc_pct, <<2, 5>>), R(2)),
         risk |-> "medium"]
    ELSE
        [conv |-> RNeg(RMin(RMul(pc_pct, <<4, 5>>), R(50))),
         mrr  |-> RMax(RMul(pc_pct, <<3, 10>>), R(5)),
         risk |-> "high"]

\* mutation: the medium band excludes its lower end (0 < for 0 <=)
expected_effect_open_0(pc_pct) ==
    IF RLt(pc_pct, R(0)) THEN
        LET conv == RMin(RMul(RAbs(pc_pct), <<4, 5>>), R(40))
        IN  [conv |-> conv, mrr |-> RMax(RMul(conv, <<3, 5>>), R(3)), risk |-> "low"]
    ELSE IF RLt(R(0), pc_pct) /\ RLe(pc_pct, R(20)) THEN
        [conv |-> RMul(RNeg(pc_pct), <<1, 2>>),
         mrr  |-> RMax(RMul(pc_pct, <<2, 5>>), R(2)),
         risk |-> "medium"]
    ELSE
        [conv |-> RNeg(RMin(RMul(pc_pct, <<4, 5>>), R(50))),
         mrr  |-> RMax(RMul(pc_pct, <<3, 10>>), R(5)),
         risk |-> "high"]


\* mutation: the cap of 50 on the conversion loss left out
expected_effect_uncapped(pc_pct) ==
    IF RLt(pc_pct, R(0)) THEN
        LET conv == RMin(RMul(RAbs(pc_pct), <<4, 5>>), R(40))
        IN  [conv |-> conv, mrr |-> RMax(RMul(conv, <<3, 5>>), R(3)), risk |-> "low"]
    ELSE IF RLe(R(0), pc_pct) /\ RLe(pc_pct, R(20)) THEN
        [conv |-> RMul(RNeg(pc_pct), <<1, 2>>),
         mrr  |-> RMax(RMul(pc_pct, <<2, 5>>), R(2)),
         risk |-> "medium"]
    ELSE
        [conv |-> RNeg(RMul(pc_pct, <<4, 5>>)),
         mrr  |-> RMax(RMul(pc_pct, <<3, 10>>), R(5)),
         risk |-> "high"]

\* expected_conv_change, expected_mrr_change, risk_level
expected_effect(pc_pct) ==
    IF RLt(pc_pct, R(0)) THEN
        LET conv == RMin(RMul(RAbs(pc_pct), <<4, 5>>), R(40))
        IN  [conv |-> conv, mrr |-> RMax(RMul(conv, <<3, 5>>), R(3)), risk |-> "low"]
    ELSE IF RLe(R(0), pc_pct) /\ RLe(pc_pct, R(20)) THEN
        [conv |-> RMul(RNeg(pc_pct), <<1, 2>>),
         mrr  |-> RMax(RMul(pc_pct, <<2, 5>>), R(2)),
         risk |-> "medium"]
    ELSE
        [conv |-> RNeg(RMin(RMul(pc_pct, <<4, 5>>), R(50))),
         mrr  |-> RMax(RMul(pc_pct, <<3, 10>>), R(5)),
         risk |-> "high"]


\* mutation: the implied revenue divided by subs instead of followers
locals_per_subscriber(a) ==
    LET f    == clamp_followers(a.followers)
        sb   == clamp_subs(a.estimated_subscribers, f)
        v    == clamp_views(a.avg_views)
        e    == clamp_eng(a.engagement_rate)
        c    == clamp_cpm(a.avg_cpm)
        cp   == clamp_current_price(a.current_price)
        mi   == monthly_impressions(v)
        irpf == implied_revenue_per_fan(mi, c, sb)
        pen  == target_sub_penetration(e)
        arpu == target_arpu(irpf)
        s    == suggested_sub_price(arpu, pen)
        pl   == ppv_low(s)
        ph   == ppv_high(pl, s)
        ur   == uplift_ratio(s, cp)
        rp   == normalize_risk_profile(a.risk_profile)
        d    == delta_pct(s, cp)
        tp   == clamp_test_price(branch_test_price(d, s, cp, rp))
        pcp  == price_change_pct(tp, cp)
        eff  == expected_effect(pcp)
    IN  [followers |-> f, subs |-> sb, views |-> v, eng |-> e, cpm |-> c,
         current_price |-> cp, monthly_impressions |-> mi,
         implied_revenue_per_fan |-> irpf, target_sub_penetration |-> pen,
         target_arpu |-> arpu, suggested_sub_price |-> s,
         ppv_low |-> pl, ppv_high |-> ph,
         uplift_ratio |-> ur, uplift_pct |-> uplift_pct(ur),
         risk_profile |-> rp, delta_pct |-> d, test_price |-> tp,
         duration_days |-> duration_days(rp),
         traffic_fraction |-> traffic_fraction(rp),
         price_change_pct |-> pcp,
         expected_conv_change |-> eff.conv,
         expected_mrr_change |-> eff.mrr,
         risk_level |-> eff.risk]

\* the local variables of run_pricing_engine when it reaches its return
locals(a) ==
    LET f    == clamp_followers(a.followers)
        sb   == clamp_subs(a.estimated_subscribers, f)
        v    == clamp_views(a.avg_views)
        e    == clamp_eng(a.engagement_rate)
        c    == clamp_cpm(a.avg_cpm)
        cp   == clamp_current_price(a.current_price)
        mi   == monthly_impressions(v)
        irpf == implied_revenue_per_fan(mi, c, f)
        pen  == target_sub_penetration(e)
        arpu == target_arpu(irpf)
        s    == suggested_sub_price(arpu, pen)
        pl   == ppv_low(s)
        ph   == ppv_high(pl, s)
        ur   == uplift_ratio(s, cp)
        rp   == normalize_risk_profile(a.risk_profile)
        d    == delta_pct(s, cp)
        tp   == clamp_test_price(branch_test_price(d, s, cp, rp))
        pcp  == price_change_pct(tp, cp)
        eff  == expected_effect(pcp)
    IN  [followers |-> f, subs |-> sb, views |-> v, eng |-> e, cpm |-> c,
         current_price |-> cp, monthly_impressions |-> mi,
         implied_revenue_per_fan |-> irpf, target_sub_penetration |-> pen,
         target_arpu |-> arpu, suggested_sub_price |-> s,
         ppv_low |-> pl, ppv_high |-> ph,
         uplift_ratio |-> ur, uplift_pct |-> uplift_pct(ur),
         risk_profile |-> rp, delta_pct |-> d, test_price |-> tp,
         duration_days |-> duration_days(rp),
         traffic_fraction |-> traffic_fraction(rp),
         price_change_pct |-> pcp,
         expected_conv_change |-> eff.conv,
         expected_mrr_change |-> eff.mrr,
         risk_level |-> eff.risk]

\* test_recommendation = {...}
test_recommendation(l) ==
    [tier_name |-> "Main subscription tier",
     current_price |-> round_n(l.current_price, 2),
     test_price |-> round_n(l.test_price, 2),
     segment |-> "New subscribers only",
     traffic_fraction |-> int(RMul(l.traffic_fraction, R(100))),
     duration_days |-> l.duration_days,
     expected_conversion_change_pct |-> round_n(l.expected_conv_change, 1),
     expected_mrr_change_pct |-> round_n(l.expected_mrr_change, 1),
     risk_level |-> l.risk_level,
     fallback_rule |-> "Revert to current price if churn on existing subs rises >5%."]


\* mutation: the two PPV keys crossed
return_value_ppv_crossed(l) ==
    [suggested_sub_price |-> l.suggested_sub_price,
     ppv_low |-> l.ppv_high,
     ppv_high |-> l.ppv_low,
     implied_revenue_per_fan |-> round_n(l.implied_revenue_per_fan, 2),
     target_sub_penetration |-> round_n(RMul(l.target_sub_penetration, R(100)), 1),
     target_arpu |-> round_n(l.target_arpu, 2),
     uplift_pct_vs_current |-> l.uplift_pct,
     pricing_test |-> test_recommendation(l)]

\* return {...}
return_value(l) ==
    [suggested_sub_price |-> l.suggested_sub_price,
     ppv_low |-> l.ppv_low,
     ppv_high |-> l.ppv_high,
     implied_revenue_per_fan |-> round_n(l.implied_revenue_per_fan, 2),
     target_sub_penetration |-> round_n(RMul(l.target_sub_penetration, R(100)), 1),
     target_arpu |-> round_n(l.target_arpu, 2),
     uplift_pct_vs_current |-> l.uplift_pct,
     pricing_test |-> test_recommendation(l)]

\* the divisions of lines 38, 50, 70 and 104 raise ZeroDivisionError on a zero
\* divisor
raises(a) ==
    \/ clamp_followers(a.followers) = 0
    \/ target_sub_penetration(clamp_eng(a.engagement_rate))[1] = 0
    \/ clamp_current_price(a.current_price)[1] = 0

-----------------------------------------------------------------------------
\* Inputs

MaxViewsK == 3
MaxPriceHalves == 26

FollowersValues == {R(-5), R(0), <<5, 2>>, R(10000)}
SubscribersValues == {<<>>, <<R(0)>>, <<R(-3)>>, <<R(500)>>}
ViewsValues == {R(12500 * k) : k \in -1..MaxViewsK} \cup {R(3000)}
EngagementValues == {R(-1), R(0), R(2), <<5, 2>>, <<7, 2>>, R(5)}
CpmValues == {R(-2), R(0), R(20), R(50)}
PriceValues ==
    {Rat(k, 2) : k \in -1..MaxPriceHalves}
        \cup {<<617, 50>>, R(15), R(17), R(20), <<51, 2>>, R(40), R(126), R(200)}
RiskProfileValues ==
    {"conservative", "balanced", "aggressive", "AGGRESSIVE", "yolo", "", None}

\* the audience and price grid, called by the dashboard with positive inputs
CoreArgs ==
    [followers : {R(10000)}, estimated_subscribers : {<<>>},
     avg_views : ViewsValues, engagement_rate : EngagementValues,
     avg_cpm : {R(20), R(50)}, current_price : PriceValues,
     risk_profile : RiskProfileValues]

\* out-of-range inputs of every argument
EdgeArgs ==
    [followers : FollowersValues, estimated_subscribers : SubscribersValues,
     avg_views : {R(-12500), R(0), R(12500)},
     engagement_rate : {R(-1), R(0), R(2)},
     avg_cpm : CpmValues,
     current_price : {<<-1, 2>>, R(0), <<1, 2>>, R(1), R(12)},
     risk_profile : {"balanced", "conservative"}]

\* Scenario A of the specification's testable properties
ScenarioA ==
    [followers |-> R(10000), estimated_subscribers |-> <<R(10000)>>,
     avg_views |-> R(3000), engagement_rate |-> <<7, 2>>, avg_cpm |-> R(20),
     current_price |-> R(12), risk_profile |-> "balanced"]

Args == CoreArgs \cup EdgeArgs \cup {ScenarioA}

NoFrame == [raised |-> FALSE]
NoResult == [raised |-> FALSE]

\* a fresh process and a fresh dashboard session (app.py lines 35-38)
AppInit ==
    /\ calls = <<>>
    /\ np_random = 0
    /\ session = [web_profile |-> <<>>, cohort_df |-> <<>>]
    /\ cache = {}
    /\ lookups = <<>>

Init ==
    /\ args \in Args
    /\ frame = NoFrame
    /\ result = NoResult
    /\ pc = "call"
    /\ AppInit

\* one call of run_pricing_engine(**args)
run_pricing_engine ==
    /\ pc = "call"
    /\ IF raises(args)
       THEN /\ pc' = "raised"
            /\ frame' = [raised |-> TRUE]
            /\ result' = [raised |-> TRUE]
       ELSE /\ pc' = "returned"
            /\ frame' = locals(args)
            /\ result' = return_value(locals(args))
    /\ UNCHANGED args
    /\ UNCHANGED appvars

Next == run_pricing_engine

Spec == Init /\ [][Next]_vars

-----------------------------------------------------------------------------
\* Properties of run_pricing_engine

Returned == pc = "returned"

InRange(x, lo, hi) == RLe(lo, x) /\ RLe(x, hi)

\* C1: for every input the returned suggested_sub_price lies in [5.0, 50.0]
\* and is an exact multiple of 0.5.
C1_SuggestedPriceRange ==
    Returned =>
        /\ InRange(result.suggested_sub_price, R(5), R(50))
        /\ IsInt(RMul(result.suggested_sub_price, R(2)))

\* a call whose target_arpu / target_sub_penetration exceeds 50 returned 50.0
C1_Witness ==
    /\ Returned
    /\ RLt(R(50), RDiv(frame.target_arpu, frame.target_sub_penetration))
    /\ result.suggested_sub_price = R(50)

\* C2: risk_level is "low" iff test_price < current_price, "medium" iff
\* current_price <= test_price <= 1.20 * current_price, "high" iff
\* test_price > 1.20 * current_price (current_price after its floor of 1),
\* and it is exactly one of the three.
C2_RiskLevelBands ==
    Returned =>
        LET tp   == result.pricing_test.test_price
            cp   == frame.current_price
            cp20 == RMul(cp, <<6, 5>>)
            risk == result.pricing_test.risk_level
        IN  /\ risk \in {"low", "medium", "high"}
            /\ (risk = "low") <=> RLt(tp, cp)
            /\ (risk = "medium") <=> (RLe(cp, tp) /\ RLe(tp, cp20))
            /\ (risk = "high") <=> RLt(cp20, tp)

\* a price increase of exactly 20% was rated "medium"
C2_Witness ==
    /\ Returned
    /\ result.pricing_test.test_price = RMul(frame.current_price, <<6, 5>>)
    /\ result.pricing_test.risk_level = "medium"

\* C3: for every input and risk profile the returned test_price lies in
\* [3.0, 100.0], whichever branch on delta_pct produced it.
C3_TestPriceRange ==
    Returned => InRange(result.pricing_test.test_price, R(3), R(100))

\* the discount branch produced more than 100 and 100.0 was returned
C3_Witness ==
    /\ Returned
    /\ RLt(frame.delta_pct, R(-10))
    /\ RLt(R(100), round_half_dollar(frame.current_price, <<4, 5>>))
    /\ result.pricing_test.test_price = R(100)

\* every argument below its floor replaced by the floor
FloorNumber(x, lo) == IF RLt(x, lo) THEN lo ELSE x

FloorArgs(a) ==
    [followers |-> FloorNumber(a.followers, R(1)),
     estimated_subscribers |->
        IF a.estimated_subscribers = <<>> THEN <<>>
        ELSE <<FloorNumber(a.estimated_subscribers[1], R(1))>>,
     avg_views |-> FloorNumber(a.avg_views, R(1)),
     engagement_rate |-> FloorNumber(a.engagement_rate, <<1, 10>>),
     avg_cpm |-> FloorNumber(a.avg_cpm, <<1, 2>>),
     current_price |-> FloorNumber(a.current_price, R(1)),
     risk_profile |-> a.risk_profile]

\* C4: the engine never raises on numeric inputs, and an input below its
\* floor (followers 1, estimated_subscribers 1, avg_views 1, engagement_rate
\* 0.1, avg_cpm 0.5, current_price 1) gives exactly the result of the call
\* with that input replaced by the floor.
C4_ClampsNeverRaises ==
    /\ pc # "raised"
    /\ Returned =>
        /\ ~raises(FloorArgs(args))
        /\ result = return_value(locals(FloorArgs(args)))

\* a call with every numeric argument below its floor returned
C4_Witness ==
    /\ Returned
    /\ RLt(args.followers, R(1))
    /\ args.estimated_subscribers # <<>>
    /\ RLt(args.estimated_subscribers[1], R(0))
    /\ RLt(args.avg_views, R(0))
    /\ RLt(args.engagement_rate, R(0))
    /\ RLt(args.avg_cpm, R(0))
    /\ RLt(args.current_price, R(0))

BalancedArgs(a) == [a EXCEPT !.risk_profile = "balanced"]

\* C5 as stated: any risk_profile outside {conservative, balanced,
\* aggressive} returns the result of risk_profile = "balanced".
C5_Original ==
    (Returned /\ args.risk_profile \notin RiskProfiles) =>
        result = return_value(locals(BalancedArgs(args)))

\* C5 amended: any risk_profile whose lower-cased form is outside
\* {conservative, balanced, aggressive} (and None and the empty string)
\* returns, in every field, the result of risk_profile = "balanced".
C5_UnrecognizedIsBalanced ==
    (/\ Returned
     /\ \/ ~truthy_string(args.risk_profile)
        \/ lower(args.risk_profile) \notin RiskProfiles) =>
        result = return_value(locals(BalancedArgs(args)))

\* "yolo" in the price-increase branch, where the profiles differ in test_price
C5_Witness ==
    /\ Returned
    /\ args.risk_profile = "yolo"
    /\ RLt(R(10), frame.delta_pct)
    /\ result.pricing_test.test_price # frame.suggested_sub_price

\* C6: the returned PPV band satisfies ppv_high >= ppv_low + 2.0 and
\* ppv_low >= 4.0.
C6_PpvBand ==
    Returned =>
        /\ RLe(RAdd(result.ppv_low, R(2)), result.ppv_high)
        /\ RLe(R(4), result.ppv_low)

\* the lowest suggested price, 8.5, with its band 5.10 .. 17.00
C6_Witness ==
    /\ Returned
    /\ result.suggested_sub_price = <<17, 2>>
    /\ result.ppv_low = <<51, 10>>
    /\ result.ppv_high = R(17)

\* C7 as stated: the returned target_sub_penetration is a fraction in
\* [0.15, 0.35].
C7_Original ==
    Returned => InRange(result.target_sub_penetration, <<3, 20>>, <<7, 20>>)

\* C7 amended: the returned target_sub_penetration is a percentage in
\* [15.0, 35.0]: 100 times the fraction in [0.15, 0.35] the engine computes
\* with, rounded to one decimal.
C7_PenetrationPercent ==
    Returned =>
        /\ InRange(frame.target_sub_penetration, <<3, 20>>, <<7, 20>>)
        /\ InRange(result.target_sub_penetration, R(15), R(35))
        /\ RLe(RAbs(RSub(result.target_sub_penetration,
                         RMul(frame.target_sub_penetration, R(100)))), <<1, 20>>)

\* an engagement rate above 3.5% returned 35.0
C7_Witness ==
    /\ Returned
    /\ RLt(<<7, 2>>, frame.eng)
    /\ result.target_sub_penetration = R(35)

\* C8: the returned target_arpu lies in [3.0, 30.0]: it is 4 times the
\* implied revenue per fan clipped to that interval.
C8_TargetArpu ==
    Returned =>
        LET x == RMul(frame.implied_revenue_per_fan, R(4))
        IN  /\ InRange(result.target_arpu, R(3), R(30))
            /\ RLt(x, R(3)) => result.target_arpu = R(3)
            /\ RLt(R(30), x) => result.target_arpu = R(30)
            /\ InRange(x, R(3), R(30)) => result.target_arpu = round_n(x, 2)

\* four times the implied revenue per fan exceeded 30 and 30.0 was returned
C8_Witness ==
    /\ Returned
    /\ RLt(R(30), RMul(frame.implied_revenue_per_fan, R(4)))
    /\ result.target_arpu = R(30)

\* C9 as stated: Scenario A returns implied_revenue_per_fan 1.8, target_arpu
\* 7.2, suggested_sub_price 20.5, test_price 15.0,
\* expected_conversion_change_pct -20.0, expected_mrr_change_pct 7.5 and
\* risk_level "high".
C9_Original ==
    (Returned /\ args = ScenarioA) =>
        /\ result.implied_revenue_per_fan = <<9, 5>>
        /\ result.target_arpu = <<36, 5>>
        /\ result.suggested_sub_price = <<41, 2>>
        /\ result.pricing_test.test_price = R(15)
        /\ result.pricing_test.expected_conversion_change_pct = R(-20)
        /\ result.pricing_test.expected_mrr_change_pct = <<15, 2>>
        /\ result.pricing_test.risk_level = "high"

\* C9 amended: Scenario A returns implied_revenue_per_fan 0.18, target_arpu
\* 3.0, suggested_sub_price 8.5, test_price 9.5,
\* expected_conversion_change_pct 16.7, expected_mrr_change_pct 10.0 and
\* risk_level "low".
C9_ScenarioA ==
    (Returned /\ args = ScenarioA) =>
        /\ result.implied_revenue_per_fan = <<9, 50>>
        /\ result.target_arpu = R(3)
        /\ result.suggested_sub_price = <<17, 2>>
        /\ result.pricing_test.test_price = <<19, 2>>
        /\ result.pricing_test.expected_conversion_change_pct = <<167, 10>>
        /\ result.pricing_test.expected_mrr_change_pct = R(10)
        /\ result.pricing_test.risk_level = "low"

\* the call of Scenario A returned
C9_Witness == Returned /\ args = ScenarioA

\* C10: when current_price equals the computed suggested_sub_price, for every
\* risk profile test_price = suggested_sub_price,
\* expected_conversion_change_pct = 0 and risk_level = "medium".
C10_PriceAlreadySuggested ==
    (Returned /\ frame.current_price = frame.suggested_sub_price) =>
        /\ result.pricing_test.test_price = result.suggested_sub_price
        /\ result.pricing_test.expected_conversion_change_pct = R(0)
        /\ result.pricing_test.risk_level = "medium"

\* a conservative call at current_price = suggested_sub_price = 12.0
C10_Witness ==
    /\ Returned
    /\ frame.risk_profile = "conservative"
    /\ frame.current_price = R(12)
    /\ frame.suggested_sub_price = R(12)

-----------------------------------------------------------------------------
\* Further properties of run_pricing_engine

\* the result of the call with one argument replaced
WithProfile(a, rp) == return_value(locals([a EXCEPT !.risk_profile = rp]))
WithSubscribers(a, es) == return_value(locals([a EXCEPT !.estimated_subscribers = es]))

\* C11: duration_days and traffic_fraction depend only on the normalized risk
\* profile: conservative gives (21, 30), aggressive (10, 80), balanced or any
\* unrecognized value (14, 50), the traffic fraction an integer percent.
C11_DurationAndTraffic ==
    Returned =>
        LET t  == result.pricing_test
            rp == IF truthy_string(args.risk_profile)
                  THEN lower(args.risk_profile) ELSE "balanced"
        IN  /\ t.traffic_fraction \in Int
            /\ rp = "conservative" => (t.duration_days = 21 /\ t.traffic_fraction = 30)
            /\ rp = "aggressive" => (t.duration_days = 10 /\ t.traffic_fraction = 80)
            /\ rp \notin {"conservative", "aggressive"} =>
                   (t.duration_days = 14 /\ t.traffic_fraction = 50)

\* an aggressive call (given in upper case) returned 10 days at 80%
C11_Witness ==
    /\ Returned
    /\ args.risk_profile = "AGGRESSIVE"
    /\ result.pricing_test.duration_days = 10
    /\ result.pricing_test.traffic_fraction = 80

\* C13: in the discount case (delta_pct < -10) the test price does not reach
\* the suggested price: suggested_sub_price < test_price < current_price.
C13_DiscountStopsShort ==
    (Returned /\ RLt(frame.delta_pct, R(-10))) =>
        /\ RLt(result.suggested_sub_price, result.pricing_test.test_price)
        /\ RLt(result.pricing_test.test_price, frame.current_price)

\* C14: in the increase case (delta_pct > 10) the test price is the suggested
\* price scaled back: current_price < test_price <= suggested_sub_price, with
\* equality for the aggressive profile.
C14_IncreaseScaledBack ==
    (Returned /\ RLt(R(10), frame.delta_pct)) =>
        /\ RLt(frame.current_price, result.pricing_test.test_price)
        /\ RLe(result.pricing_test.test_price, result.suggested_sub_price)
        /\ frame.risk_profile = "aggressive" =>
               result.pricing_test.test_price = result.suggested_sub_price

\* C15: the expected effects are bounded and signed by risk level: low has
\* 0 <= conversion change <= 40 and MRR change >= 3; medium has -10 <=
\* conversion change <= 0 and MRR change >= 2; high has -50 <= conversion
\* change <= -16 and MRR change >= 5.
C15_EffectBounds ==
    Returned =>
        LET t    == result.pricing_test
            conv == t.expected_conversion_change_pct
            mrr  == t.expected_mrr_change_pct
        IN  /\ t.risk_level = "low" => (InRange(conv, R(0), R(40)) /\ RLe(R(3), mrr))
            /\ t.risk_level = "medium" => (InRange(conv, R(-10), R(0)) /\ RLe(R(2), mrr))
            /\ t.risk_level = "high" => (InRange(conv, R(-50), R(-16)) /\ RLe(R(5), mrr))
            /\ RLe(R(2), mrr)

\* a high-risk proposal whose conversion loss was capped at 50
C15_Witness ==
    /\ Returned
    /\ result.pricing_test.risk_level = "high"
    /\ RLt(R(50), RMul(frame.price_change_pct, <<4, 5>>))
    /\ result.pricing_test.expected_conversion_change_pct = R(-50)

\* C16: for fixed numeric inputs the risk profile changes nothing outside the
\* test proposal, and when delta_pct <= 10 it changes only duration_days and
\* traffic_fraction.
C16_ProfileAffectsOnlyProposal ==
    Returned =>
        \A rp \in RiskProfiles :
            LET o == WithProfile(args, rp)
            IN  /\ o.suggested_sub_price = result.suggested_sub_price
                /\ o.ppv_low = result.ppv_low
                /\ o.ppv_high = result.ppv_high
                /\ o.implied_revenue_per_fan = result.implied_revenue_per_fan
                /\ o.target_sub_penetration = result.target_sub_penetration
                /\ o.target_arpu = result.target_arpu
                /\ o.uplift_pct_vs_current = result.uplift_pct_vs_current
                /\ RLe(frame.delta_pct, R(10)) =>
                    /\ o.pricing_test.test_price = result.pricing_test.test_price
                    /\ o.pricing_test.expected_conversion_change_pct =
                           result.pricing_test.expected_conversion_change_pct
                    /\ o.pricing_test.expected_mrr_change_pct =
                           result.pricing_test.expected_mrr_change_pct
                    /\ o.pricing_test.risk_level = result.pricing_test.risk_level

\* a conservative call in the discount case
C16_Witness ==
    /\ Returned
    /\ frame.risk_profile = "conservative"
    /\ RLt(frame.delta_pct, R(-10))

\* C20: estimated_subscribers has no influence on the result: calls that
\* differ only in it (0, None and negative values included) return the same
\* recommendation and test proposal.
C20_SubscribersIgnored ==
    Returned => \A es \in SubscribersValues : WithSubscribers(args, es) = result

\* a call given 500 subscribers for 10000 followers
C20_Witness ==
    /\ Returned
    /\ args.estimated_subscribers = <<R(500)>>
    /\ frame.subs = 500
    /\ frame.followers = 10000

-----------------------------------------------------------------------------
\* services/churn.py: estimate_monthly_churn

MaxActiveSubs == 20
MaxCancels == 5

\* active_subs = max(int(active_subs), 1)
clamp_active_subs(x) == IMax(int(x), 1)

\* cancels_30d = max(int(cancels_30d), 0)
clamp_cancels_30d(x) == IMax(int(x), 0)

\* churn_rate = cancels_30d / active_subs
churn_rate(c, a) == Rat(c, a)

\* mutation: the healthy band includes 5% (<= 0.05 for < 0.05)
health_label_closed(rate) ==
    IF RLe(rate, <<1, 20>>) THEN "healthy"
    ELSE IF RLt(rate, <<1, 10>>) THEN "watch"
    ELSE "risk"

\* "healthy" if churn_rate < 0.05 else "watch" if churn_rate < 0.10 else "risk"
health_label(rate) ==
    IF RLt(rate, <<1, 20>>) THEN "healthy"
    ELSE IF RLt(rate, <<1, 10>>) THEN "watch"
    ELSE "risk"

\* the dict estimate_monthly_churn returns
churn_estimate(a) ==
    LET active  == clamp_active_subs(a.active_subs)
        cancels == clamp_cancels_30d(a.cancels_30d)
        rate    == churn_rate(cancels, active)
    IN  [active_subs |-> active,
         cancels_30d |-> cancels,
         monthly_churn_rate_pct |-> round_n(RMul(rate, R(100)), 2),
         health_label |-> health_label(rate)]

ChurnArgs ==
    [active_subs : {R(k) : k \in -1..MaxActiveSubs} \cup {<<5, 2>>},
     cancels_30d : {R(k) : k \in -1..MaxCancels} \cup {<<3, 2>>}]

InitChurn ==
    /\ args \in ChurnArgs
    /\ frame = NoFrame
    /\ result = NoResult
    /\ pc = "call"
    /\ AppInit

\* one call of estimate_monthly_churn(**args)
estimate_monthly_churn ==
    /\ pc = "call"
    /\ pc' = "returned"
    /\ result' = churn_estimate(args)
    /\ UNCHANGED <<args, frame>>
    /\ UNCHANGED appvars

NextChurn == estimate_monthly_churn

SpecChurn == InitChurn /\ [][NextChurn]_vars

\* C18: estimate_monthly_churn floors active_subs to 1 and cancels_30d to 0
\* and labels cancels_30d / active_subs "healthy" iff it is below 5%, "watch"
\* iff it is at least 5% and below 10%, "risk" iff it is at least 10%
\* (ratios above 100% included).
C18_ChurnBands ==
    Returned =>
        LET a == result.active_subs
            c == result.cancels_30d
            l == result.health_label
        IN  /\ a = (IF RLt(args.active_subs, R(1)) THEN 1 ELSE int(args.active_subs))
            /\ c = (IF RLt(args.cancels_30d, R(0)) THEN 0 ELSE int(args.cancels_30d))
            /\ l \in {"healthy", "watch", "risk"}
            /\ (l = "healthy") <=> (100 * c < 5 * a)
            /\ (l = "watch") <=> (5 * a <= 100 * c /\ 100 * c < 10 * a)
            /\ (l = "risk") <=> (10 * a <= 100 * c)

\* a churn of exactly 5% (1 cancel of 20 subscribers) was labelled "watch"
C18_Witness ==
    /\ Returned
    /\ args = [active_subs |-> R(20), cancels_30d |-> R(1)]
    /\ result.health_label = "watch"
    /\ result.monthly_churn_rate_pct = R(5)

-----------------------------------------------------------------------------
\* services/experiments.py: summarize_pricing_experiment

MaxNewSubs == 3

\* c_subs = max(int(exp.control_new_subs), 0), t_subs likewise
clamp_new_subs(x) == IMax(int(x), 0)

\* exp.control_seen and exp.test_seen and exp.control_seen > 0 and exp.test_seen > 0
exposures_known(cs, ts) ==
    /\ truthy_number(cs) /\ truthy_number(ts)
    /\ RLt(R(0), cs[1]) /\ RLt(R(0), ts[1])

\* (t / c - 1.0) * 100.0 if c > 0 else None
uplift_or_none(t, c) ==
    IF RLt(R(0), c) THEN <<RMul(RSub(RDiv(t, c), R(1)), R(100))>> ELSE <<>>

\* control_rev = c_subs * float(exp.control_price)
revenue_proxy(subs_, price) == RMul(R(subs_), price)

\* winner = "test" if (rev_uplift is not None and rev_uplift > 0) else "control"
winner(rev_uplift) ==
    IF rev_uplift # <<>> /\ RLt(R(0), rev_uplift[1]) THEN "test" ELSE "control"

\* round(x, 2) if x is not None else None
round_or_none(o) == IF o # <<>> THEN <<round_n(o[1], 2)>> ELSE <<>>

\* the dict summarize_pricing_experiment returns
experiment_summary(exp) ==
    LET c_subs == clamp_new_subs(exp.control_new_subs)
        t_subs == clamp_new_subs(exp.test_new_subs)
        known  == exposures_known(exp.control_seen, exp.test_seen)
        c_rate == IF known THEN <<RDiv(R(c_subs), exp.control_seen[1])>> ELSE <<>>
        t_rate == IF known THEN <<RDiv(R(t_subs), exp.test_seen[1])>> ELSE <<>>
        uplift == IF known THEN uplift_or_none(t_rate[1], c_rate[1])
                  ELSE uplift_or_none(R(t_subs), R(c_subs))
        control_rev == revenue_proxy(c_subs, exp.control_price)
        test_rev    == revenue_proxy(t_subs, exp.test_price)
        rev_uplift  == uplift_or_none(test_rev, control_rev)
    IN  [experiment |-> exp,
         metric_type |-> IF known THEN "conversion_rate" ELSE "new_subs_proxy",
         control_conversion_rate |-> c_rate,
         test_conversion_rate |-> t_rate,
         uplift_pct |-> round_or_none(uplift),
         control_revenue_proxy |-> round_n(control_rev, 2),
         test_revenue_proxy |-> round_n(test_rev, 2),
         revenue_uplift_pct |-> round_or_none(rev_uplift),
         winner |-> winner(rev_uplift)]

\* the experiments the tracker form of app.py lines 187-211 can build
ExperimentArgs ==
    [name : {"Pricing Test #1 (new subs)"},
     control_price : {R(1), R(10), R(12)},
     test_price : {R(1), <<19, 2>>, R(12), R(15)},
     control_new_subs : {R(k) : k \in -1..MaxNewSubs},
     test_new_subs : {R(k) : k \in -1..MaxNewSubs},
     days_running : {14},
     control_seen : {<<>>, <<R(100)>>},
     test_seen : {<<>>, <<R(50)>>}]

InitExperiment ==
    /\ args \in ExperimentArgs
    /\ frame = NoFrame
    /\ result = NoResult
    /\ pc = "call"
    /\ AppInit

\* one call of summarize_pricing_experiment(exp), exp being args
summarize_pricing_experiment ==
    /\ pc = "call"
    /\ pc' = "returned"
    /\ result' = experiment_summary(args)
    /\ UNCHANGED <<args, frame>>
    /\ UNCHANGED appvars

NextExperiment == summarize_pricing_experiment

SpecExperiment == InitExperiment /\ [][NextExperiment]_vars

\* C17: the winner is "test" iff test_revenue_proxy (test_new_subs *
\* test_price, subs floored at 0) is strictly greater than
\* control_revenue_proxy, and "control" otherwise, for every experiment,
\* those with a control revenue proxy of 0 included.
C17_WinnerByRevenue ==
    Returned =>
        /\ result.winner \in {"test", "control"}
        /\ (result.winner = "test") <=>
               RLt(result.control_revenue_proxy, result.test_revenue_proxy)

\* what the code does: with a control revenue proxy of 0 the winner is
\* "control" whatever the test arm earned; otherwise C17's rule holds
WinnerAsCoded ==
    Returned =>
        /\ result.control_revenue_proxy = R(0) => result.winner = "control"
        /\ RLt(R(0), result.control_revenue_proxy) =>
               ((result.winner = "test") <=>
                    RLt(result.control_revenue_proxy, result.test_revenue_proxy))

-----------------------------------------------------------------------------
\* app.py lines 35-67: the session and the "Lookup from web" button, with
\* services/onlyfans.py: fetch_creator_profile_from_web behind the cache

MaxLookups == 3

\* the selectbox of app.py line 55
Platforms == {"OnlyFans", "Instagram", "TikTok", "YouTube"}

\* what the text input of line 56 can hold
Handles == {"", "@", "@ana", "bob"}

\* what requests.get and the parser make of the page (onlyfans.py 125-236)
Pages == {"http_error", "no_numbers", "fans_1200", "fans_90000", "parser_raises"}

\* platform.strip().lower() on the selectbox's strings
platform_norm(platform) ==
    CASE platform = "OnlyFans"  -> "onlyfans"
      [] platform = "Instagram" -> "instagram"
      [] platform = "TikTok"    -> "tiktok"
      [] platform = "YouTube"   -> "youtube"
      [] OTHER                  -> platform

\* handle.strip().lstrip("@").strip("/") on Handles
username(handle) ==
    CASE handle = "@"    -> ""
      [] handle = "@ana" -> "ana"
      [] OTHER           -> handle

\* the mapping fetch_onlyfans_profile returns, by its fields that vary
profile(handle, followers, raw_source, error) ==
    [platform |-> "OnlyFans", handle |-> handle, followers |-> followers,
     estimated_subscribers |-> followers, raw_source |-> raw_source,
     error |-> error]

returns(value) == [raised |-> FALSE, exc |-> None, value |-> <<value>>]

raise(exc) == [raised |-> TRUE, exc |-> exc, value |-> <<>>]

\* fetch_onlyfans_profile(handle), the page being what the web answers
fetch_onlyfans_profile(handle, page) ==
    IF username(handle) = ""
    THEN returns(profile(handle, 5000, "onlyfans_invalid_handle_fallback",
                         <<"Handle was empty after cleaning.">>))
    ELSE CASE page = "http_error" ->
                  returns(profile(username(handle), 5000,
                                  "onlyfans_http_error_fallback", <<"http">>))
           [] page = "no_numbers" ->
                  returns(profile(username(handle), 5000,
                                  "onlyfans_fallback_no_numbers_found", <<>>))
           [] page = "fans_1200" ->
                  returns(profile(username(handle), 1200,
                                  "onlyfans_meta_or_text", <<>>))
           [] page = "fans_90000" ->
                  returns(profile(username(handle), 90000,
                                  "onlyfans_meta_or_text", <<>>))
           [] OTHER -> raise("Exception")

\* fetch_creator_profile_from_web(handle, platform)
fetch_creator_profile_from_web(handle, platform, page) ==
    IF ~truthy_string(handle) THEN raise("ValueError")
    ELSE IF platform_norm(platform) = "onlyfans"
         THEN fetch_onlyfans_profile(handle, page)
         ELSE raise("NotImplementedError")

\* mutation: only the first except clause, NotImplementedError, is there
caught_not_implemented_only(exc) == exc = "NotImplementedError"

\* except NotImplementedError ... except Exception: ValueError and every
\* other exception the lookup raises derive from Exception
caught(exc) == exc = "NotImplementedError" \/ exc \in {"ValueError", "Exception"}

\* cached_profile_lookup(handle, platform): st.cache_data returns the entry
\* kept under the arguments, and calls the function when there is none
cached_profile_lookup(handle, platform, page) ==
    LET hit == {e \in cache : e.key = <<handle, platform>>}
    IN  IF hit # {} THEN returns((CHOOSE e \in hit : TRUE).value)
        ELSE fetch_creator_profile_from_web(handle, platform, page)

\* st.cache_data keeps what the function returned, never what it raised
cache_after(handle, platform, out) ==
    IF out.raised \/ \E e \in cache : e.key = <<handle, platform>>
    THEN cache
    ELSE cache \cup {[key |-> <<handle, platform>>, value |-> out.value[1]]}

InitApp ==
    /\ args = ScenarioA
    /\ frame = NoFrame
    /\ result = NoResult
    /\ pc = "script"
    /\ AppInit

\* one click of "Lookup from web" (app.py 58-67)
LookupFromWeb ==
    /\ pc = "script"
    /\ Len(lookups) < MaxLookups
    /\ \E handle \in Handles, platform \in Platforms, page \in Pages :
          LET out == cached_profile_lookup(handle, platform, page)
          IN  /\ cache' = cache_after(handle, platform, out)
              /\ session' = IF out.raised THEN session
                            ELSE [session EXCEPT !.web_profile = out.value]
              /\ pc' = IF out.raised /\ ~caught(out.exc)
                       THEN "stopped" ELSE "script"
              /\ lookups' = Append(lookups,
                                [handle |-> handle, platform |-> platform,
                                 raised |-> out.raised, exc |-> out.exc,
                                 value |-> out.value])
    /\ UNCHANGED <<args, frame, result, calls, np_random>>

\* an entry of the cache outlives its ttl of one hour (app.py line 43)
CacheExpires ==
    /\ pc = "script"
    /\ \E e \in cache : cache' = cache \ {e}
    /\ UNCHANGED <<args, frame, result, pc, calls, np_random, session, lookups>>

NextApp == LookupFromWeb \/ CacheExpires

SpecApp == InitApp /\ [][NextApp]_vars

ReturnedLookups == {i \in 1..Len(lookups) : ~lookups[i].raised}

LastReturned == CHOOSE i \in ReturnedLookups : \A j \in ReturnedLookups : j <= i

\* C19: over any sequence of "Lookup from web" clicks, web_profile is None
\* until the first lookup that returns and afterwards is the mapping the
\* most recent returning lookup returned; an empty handle raises ValueError,
\* a platform other than OnlyFans NotImplementedError, and no raising lookup
\* ends the script run.
C19_WebProfileIsLastReturned ==
    /\ pc # "stopped"
    /\ ReturnedLookups = {} => session.web_profile = <<>>
    /\ ReturnedLookups # {} =>
           session.web_profile = lookups[LastReturned].value
    /\ \A i \in 1..Len(lookups) :
           /\ lookups[i].handle = "" =>
                  lookups[i].raised /\ lookups[i].exc = "ValueError"
           /\ lookups[i].handle # "" /\ lookups[i].platform # "OnlyFans" =>
                  lookups[i].raised /\ lookups[i].exc = "NotImplementedError"

\* two different mappings were returned, then lookups raised: the second
\* mapping stays
C19_Witness ==
    /\ Len(lookups) = 3
    /\ ~lookups[1].raised /\ ~lookups[2].raised /\ lookups[3].raised
    /\ lookups[1].value # lookups[2].value
    /\ lookups[3].exc = "ValueError"
    /\ session.web_profile = lookups[2].value
    /\ pc = "script"

-----------------------------------------------------------------------------
\* calls of run_pricing_engine interleaved with each other and with
\* services/analytics.py: generate_synthetic_cohort, the one service that
\* touches state outside its own frame (numpy's global generator)

MaxCalls == 3
MaxDraws == 2

\* the arguments of the interleaved calls
CallArgs == {ScenarioA, [ScenarioA EXCEPT !.risk_profile = "aggressive"]}

\* what one activation of run_pricing_engine returns or raises
engine_outcome(a) ==
    IF raises(a) THEN [raised |-> TRUE] ELSE return_value(locals(a))

InitCalls ==
    /\ args = ScenarioA
    /\ frame = NoFrame
    /\ result = NoResult
    /\ pc = "script"
    /\ AppInit

\* a caller enters run_pricing_engine: a new activation with its own frame
call_run_pricing_engine ==
    /\ Len(calls) < MaxCalls
    /\ \E a \in CallArgs :
          calls' = Append(calls, [args |-> a, pc |-> "call",
                                  result |-> NoResult, rng |-> 0])
    /\ UNCHANGED <<args, frame, result, pc, np_random, session, cache, lookups>>

\* an activation runs lines 29-142 and returns
return_run_pricing_engine ==
    /\ \E i \in 1..Len(calls) :
          /\ calls[i].pc = "call"
          /\ calls' = [calls EXCEPT ![i] =
                          [args |-> calls[i].args, pc |-> "returned",
                           result |-> engine_outcome(calls[i].args),
                           rng |-> np_random]]
    /\ UNCHANGED <<args, frame, result, pc, np_random, session, cache, lookups>>

\* generate_synthetic_cohort draws from np.random (analytics.py 23-40)
generate_synthetic_cohort ==
    /\ np_random' = (np_random + 1) % MaxDraws
    /\ session' = [session EXCEPT !.cohort_df = <<np_random>>]
    /\ UNCHANGED <<args, frame, result, pc, calls, cache, lookups>>

NextCalls ==
    \/ call_run_pricing_engine
    \/ return_run_pricing_engine
    \/ generate_synthetic_cohort

SpecCalls == InitCalls /\ [][NextCalls]_vars

-----------------------------------------------------------------------------
\* Consequences of the clamps of run_pricing_engine (checked under Spec)

\* C21: target_arpu >= 3.0 and target_sub_penetration <= 0.35, so for every
\* input suggested_sub_price >= 8.5, ppv_low is 0.6 * suggested_sub_price (the
\* 4.0 floor is never taken) and ppv_high is 2 * suggested_sub_price (the
\* ppv_low + 2.0 floor is never taken).
C21_LowerClampsNeverBind ==
    Returned =>
        /\ RLe(R(3), frame.target_arpu)
        /\ RLe(frame.target_sub_penetration, <<7, 20>>)
        /\ RLe(<<17, 2>>, result.suggested_sub_price)
        /\ result.ppv_low = RMul(result.suggested_sub_price, <<3, 5>>)
        /\ result.ppv_high = RMul(result.suggested_sub_price, R(2))

\* the lowest case: target_arpu 3.0 over a penetration of 0.35 gives 8.5,
\* 5.1 and 17.0
C21_Witness ==
    /\ Returned
    /\ frame.target_arpu = R(3)
    /\ frame.target_sub_penetration = <<7, 20>>
    /\ result.suggested_sub_price = <<17, 2>>
    /\ result.ppv_low = <<51, 10>>
    /\ result.ppv_high = R(17)

\* C22: risk_level "high" comes from the price-increase branch only: with
\* delta_pct < -10 the proposal is "low" (test_price < current_price after the
\* rounding and the clamp), with -10 <= delta_pct <= 10 it is "low" or
\* "medium".
C22_HighOnlyFromIncrease ==
    Returned =>
        LET d    == frame.delta_pct
            risk == result.pricing_test.risk_level
        IN  /\ RLt(d, R(-10)) =>
                   /\ risk = "low"
                   /\ RLt(result.pricing_test.test_price, frame.current_price)
            /\ (RLe(R(-10), d) /\ RLe(d, R(10))) => risk \in {"low", "medium"}
            /\ risk = "high" => RLt(R(10), d)

\* a discount whose 80% step is cut by the upper clamp: 200 -> 160 -> 100
C22_Witness ==
    /\ Returned
    /\ RLt(frame.delta_pct, R(-10))
    /\ frame.current_price = R(200)
    /\ result.pricing_test.test_price = R(100)
    /\ result.pricing_test.risk_level = "low"

\* C23: with risk_profile "conservative" the proposal never has risk_level
\* "high": for every numeric input, current_price near the floor of 1
\* included, test_price <= 1.20 * current_price.
C23_ConservativeNeverHigh ==
    (Returned /\ frame.risk_profile = "conservative") =>
        /\ result.pricing_test.risk_level # "high"
        /\ RLe(result.pricing_test.test_price,
               RMul(frame.current_price, <<6, 5>>))

====
